---- MODULE Spec2Model ----
(***************************************************************************)
(* A model of presidio_analyzer.AnalyzerEngine (analyzer_engine.py).       *)
(*                                                                         *)
(* The engine's collaborators (the recognizer registry, the NLP engine,    *)
(* the recognizers, the tracer, EntityRecognizer.remove_duplicates) are    *)
(* not part of analyzer_engine.py; they are modelled from their contracts, *)
(* and every call the engine makes on them is recorded, in order and with  *)
(* its arguments and outcome, in the calling thread's log.                 *)
(***************************************************************************)
EXTENDS Integers, Sequences, FiniteSets, TLC

(***************************************************************************)
(* Bounds and the data the model ranges over.                              *)
(***************************************************************************)
\* Longest list of findings one recognizer returns from one analyze().
MaxResults == 1

\* Threads that call the engine.
Threads == {1, 2}
\* Engine instances (a second, identically constructed instance is used
\* only to compare two calls made from the same engine state).
Engines == {1, 2}

Texts == {"", "a"}
TextLen(text) == IF text = "" THEN 0 ELSE 1
Languages == {"en", "de", "xx"}
EntityTypes == {"PERSON", "EMAIL"}
CorrelationIds == {"id-1"}
\* Confidence scores, on an integer scale.
Scores == {1, 2}
Thresholds == {0, 2}
DefaultThresholds == {0, 2}

\* An optional argument: given = FALSE is Python's None.
Absent(v) == [given |-> FALSE, val |-> v]
Given(v) == [given |-> TRUE, val |-> v]

EntityFilters ==
  {Absent(<<>>), Given(<<>>), Given(<<"PERSON">>), Given(<<"EMAIL">>)}
ThresholdArgs == {Absent(0)} \cup {Given(t) : t \in Thresholds}

\* The arguments of one analyze() call.
Requests ==
  [text : Texts, language : Languages, entities : EntityFilters,
   correlation_id : CorrelationIds, score_threshold : ThresholdArgs,
   trace : BOOLEAN, remove_interpretability_response : BOOLEAN]

NoRequest ==
  [text |-> "", language |-> "", entities |-> Absent(<<>>),
   correlation_id |-> "", score_threshold |-> Absent(0),
   trace |-> FALSE, remove_interpretability_response |-> FALSE]

(***************************************************************************)
(* Sequence helpers.                                                       *)
(***************************************************************************)
Range(s) == {s[i] : i \in DOMAIN s}

\* The subsequence of s at the indices in keep, in s's order.
RECURSIVE SubSeqAt(_, _, _)
SubSeqAt(s, keep, i) ==
  IF i > Len(s) THEN <<>>
  ELSE IF i \in keep THEN <<s[i]>> \o SubSeqAt(s, keep, i + 1)
  ELSE SubSeqAt(s, keep, i + 1)

\* All sequences over S of length at most n.
SeqsUpTo(S, n) == UNION {[1..k -> S] : k \in 0..n}

(***************************************************************************)
(* The recognizers and the registry that lists them.                       *)
(***************************************************************************)
\* registry.recognizers as the engine's construction leaves it, in the
\* registry's order.
RegistryRecognizers == <<"r1", "r2">>
RecognizerNames == Range(RegistryRecognizers)

\* registry.recognizers as it is now: the registry's owner may change it
\* between calls.
VARIABLE registry

\* The lists registry.recognizers may hold.
Registries == SeqsUpTo(RecognizerNames, 2)

\* recognizer.get_supported_entities()
SupportedEntities(r) == IF r = "r1" THEN <<"PERSON">> ELSE <<"EMAIL", "PERSON">>
\* recognizer.supported_language
SupportedLanguage(r) == "en"

\* registry.get_recognizers(language, entities, all_fields): the recognizers
\* of the language, all of them or those that support a requested entity,
\* in the registry's order.
Matches(r, language, entities, all_fields) ==
  /\ SupportedLanguage(r) = language
  /\ all_fields \/ Range(SupportedEntities(r)) \cap Range(entities) # {}

RegistryGetRecognizers(language, entities, all_fields) ==
  SubSeqAt(registry,
           {i \in DOMAIN registry :
              Matches(registry[i], language, entities, all_fields)}, 1)

\* Whether the registry knows a recognizer for the language at all.
LanguageHasRecognizer(language) ==
  \E r \in Range(registry) : SupportedLanguage(r) = language

\* Languages the NLP engine has a model for.
NlpLanguages == {"en", "de"}

(***************************************************************************)
(* Findings (RecognizerResult).                                            *)
(***************************************************************************)
NoExplanation == "None"

Spans(text) ==
  {sp \in (0..TextLen(text)) \X (0..TextLen(text)) : sp[1] < sp[2]}

\* The findings recognizer r may produce on a text: of a type it supports,
\* over a span of the text, explained by r.
FindingsOf(r, text) ==
  {[entity_type |-> t, start |-> sp[1], end |-> sp[2], score |-> s,
    analysis_explanation |-> r] :
     t \in Range(SupportedEntities(r)), sp \in Spans(text), s \in Scores}

\* What one recognizer.analyze() call can do: raise, or return a list.
AnalyzeOutcomes(r, text) ==
  {[raised |-> TRUE, list |-> <<>>]}
  \cup {[raised |-> FALSE, list |-> l] : l \in SeqsUpTo(FindingsOf(r, text), MaxResults)}

\* What one recognizer.load() call can do.
LoadOutcomes == {"ok", "raise"}

(***************************************************************************)
(* EntityRecognizer.remove_duplicates: the deduplication policy.           *)
(***************************************************************************)
ContainedIn(a, b) == a.start >= b.start /\ a.end <= b.end

\* Same entity type, and identical spans or one span within the other.
IsDuplicate(a, b) ==
  /\ a.entity_type = b.entity_type
  /\ ContainedIn(a, b) \/ ContainedIn(b, a)

\* results[i] wins over results[j]: the higher score, then the earlier place.
Precedes(results, i, j) ==
  \/ results[i].score > results[j].score
  \/ results[i].score = results[j].score /\ i < j

\* The indices of results, best first.
ByPrecedence(results) ==
  [k \in DOMAIN results |->
     CHOOSE i \in DOMAIN results :
       Cardinality({j \in DOMAIN results : Precedes(results, j, i)}) = k - 1]

RECURSIVE Retain(_, _, _, _)
Retain(results, order, k, kept) ==
  IF k > Len(order) THEN kept
  ELSE LET i == order[k]
       IN IF \E j \in kept : IsDuplicate(results[i], results[j])
          THEN Retain(results, order, k + 1, kept)
          ELSE Retain(results, order, k + 1, kept \cup {i})

RemoveDuplicates(results) ==
  SubSeqAt(results, Retain(results, ByPrecedence(results), 1, {}), 1)

(***************************************************************************)
(* AnalyzerEngine's private filters.                                       *)
(***************************************************************************)
\* __remove_low_scores with the call's score_threshold never used.
RemoveLowScoresByDefault(results, score_threshold, default_threshold) ==
  SubSeqAt(results, {i \in DOMAIN results : results[i].score >= default_threshold}, 1)

\* __remove_low_scores(results, score_threshold)
RemoveLowScores(results, score_threshold, default_threshold) ==
  LET threshold == IF ~score_threshold.given THEN default_threshold
                   ELSE score_threshold.val
  IN SubSeqAt(results, {i \in DOMAIN results : results[i].score >= threshold}, 1)

\* __remove_analysis_explanation whose loop never appends to new_results.
RemoveAnalysisExplanationUnappended(results, remove_interpretability_response) ==
  IF ~remove_interpretability_response THEN results ELSE <<>>

\* __remove_analysis_explanation(results, remove_interpretability_response)
RemoveAnalysisExplanation(results, remove_interpretability_response) ==
  IF ~remove_interpretability_response THEN results
  ELSE [i \in DOMAIN results |->
          [results[i] EXCEPT !.analysis_explanation = NoExplanation]]

(***************************************************************************)
(* The calls the engine makes, as recorded in a thread's log.              *)
(***************************************************************************)
\* The NlpArtifacts of one process_text() pass; pass tells the passes of
\* one analyze() call apart.
NoArtifacts == [text |-> "", language |-> "", pass |-> 0]

\* nlp_artifacts.to_json()
ToJson(artifacts) == [text |-> artifacts.text, language |-> artifacts.language]

\* str(result.to_dict())
ToDictStr(result) ==
  <<result.entity_type, result.start, result.end, result.score>>

\* json.dumps([str(result.to_dict()) for result in results])
Dumps(results) == [i \in DOMAIN results |-> ToDictStr(results[i])]

NoPayload == [prefix |-> "", artifacts |-> ToJson(NoArtifacts), results |-> <<>>]

NoEvent ==
  [op |-> "", recognizer |-> "", language |-> "", text |-> "",
   entities |-> <<>>, all_fields |-> FALSE, artifacts |-> NoArtifacts,
   key |-> "", payload |-> NoPayload, outcome |-> "ok", returned |-> <<>>]

\* The positions of a log at which operation op was called.
Calls(lg, op) == {i \in DOMAIN lg : lg[i].op = op}

(***************************************************************************)
(* State.                                                                  *)
(***************************************************************************)
VARIABLES
  is_loaded,                \* is_loaded[e][r]: recognizer r's flag, in engine e
  enable_trace_pii,         \* the engine's constructor argument
  default_score_threshold,  \* the engine's constructor argument
  engine_of,                \* engine_of[c]: the engine thread c calls
  call                      \* call[c]: thread c's analyze() call: its position,
                            \* its arguments, its local variables and its log

vars ==
  <<registry, is_loaded, enable_trace_pii, default_score_threshold, engine_of,
    call>>

\* The engine's default_language (the constructor's default).
DefaultLanguage == "en"

NoCall ==
  [pc |-> "idle", args |-> NoRequest, all_fields |-> FALSE,
   recognizers |-> <<>>, entities |-> <<>>, nlp_artifacts |-> NoArtifacts,
   next |-> 1, results |-> <<>>, error |-> "", log |-> <<>>]

\* The orders list(set(...)) may yield the entity types in.
SetOrders == {<<"EMAIL", "PERSON">>, <<"PERSON", "EMAIL">>}

\* What registry.get_recognizers() can do for a language: return its list
\* or, for a language the registry has no recognizer for, raise.
RegistryOutcomes(language) ==
  IF LanguageHasRecognizer(language) THEN {"ok"} ELSE {"ok", "raise"}

InitEngine ==
  /\ registry = RegistryRecognizers
  /\ enable_trace_pii \in BOOLEAN
  /\ default_score_threshold \in DefaultThresholds
  /\ call = [c \in Threads |-> NoCall]

\* After construction no recognizer is loaded and every thread calls the
\* one engine.
Init ==
  /\ InitEngine
  /\ is_loaded = [e \in Engines |-> [r \in RecognizerNames |-> FALSE]]
  /\ engine_of = [c \in Threads |-> 1]

Config == <<registry, enable_trace_pii, default_score_threshold, engine_of>>

(***************************************************************************)
(* get_recognizers and get_supported_entities.                             *)
(***************************************************************************)
\* AnalyzerEngine.get_recognizers(language)
GetRecognizers(language) ==
  RegistryGetRecognizers(IF language = "" THEN DefaultLanguage ELSE language,
                         <<>>, TRUE)

\* The supported entities of a list of recognizers, one after the other
\* (supported_entities.extend(...)).
RECURSIVE Extend(_, _)
Extend(recognizers, i) ==
  IF i > Len(recognizers) THEN <<>>
  ELSE SupportedEntities(recognizers[i]) \o Extend(recognizers, i + 1)

\* list(set(l)): the elements of l, once each, in the process's set order.
ListOfSet(l, order) == SubSeqAt(order, {i \in DOMAIN order : order[i] \in Range(l)}, 1)

\* get_supported_entities of an engine that keeps the list it computed when
\* it was constructed.
GetSupportedEntitiesOfConstruction(language, order) ==
  LET lang == IF language = "" THEN DefaultLanguage ELSE language
      listed == {i \in DOMAIN RegistryRecognizers :
                   SupportedLanguage(RegistryRecognizers[i]) = lang}
  IN ListOfSet(Extend(SubSeqAt(RegistryRecognizers, listed, 1), 1), order)

\* AnalyzerEngine.get_supported_entities(language)
GetSupportedEntities(language, order) ==
  ListOfSet(Extend(GetRecognizers(language), 1), order)

(***************************************************************************)
(* analyze(), statement by statement.                                      *)
(***************************************************************************)
\* analyze() has returned a list, or has raised.
Ended(c) == call[c].pc \in {"done", "failed"}

\* The recognizer the loop is at.
Current(c) == call[c].recognizers[call[c].next]

Raise(c, kind, events) ==
  call' = [call EXCEPT ![c].pc = "failed", ![c].error = kind,
                       ![c].log = @ \o events]

\* The caller calls analyze(request).
Start(c, request) ==
  /\ call[c].pc = "idle"
  /\ call' = [call EXCEPT ![c] = [NoCall EXCEPT !.pc = "get_recognizers",
                                                !.args = request]]
  /\ UNCHANGED <<is_loaded, Config>>

\* all_fields, registry.get_recognizers(...) and, with all_fields,
\* self.get_supported_entities(language), whose list(set(...)) comes in
\* set_order.
ResolveRecognizers(c, outcome, set_order) ==
  /\ call[c].pc = "get_recognizers"
  /\ LET a == call[c].args
         all_fields == ~a.entities.given \/ a.entities.val = <<>>
         query == [NoEvent EXCEPT !.op = "get_recognizers",
                                  !.language = a.language,
                                  !.entities = a.entities.val,
                                  !.all_fields = all_fields]
         again == [NoEvent EXCEPT !.op = "get_recognizers",
                                  !.language = a.language,
                                  !.all_fields = TRUE]
     IN IF outcome = "raise"
        THEN Raise(c, "UnsupportedLanguage",
                   <<[query EXCEPT !.outcome = "raise"]>>)
        ELSE call' =
               [call EXCEPT
                  ![c].pc = "process_text",
                  ![c].all_fields = all_fields,
                  ![c].recognizers =
                     RegistryGetRecognizers(a.language, a.entities.val, all_fields),
                  ![c].entities =
                     IF all_fields THEN GetSupportedEntities(a.language, set_order)
                     ELSE a.entities.val,
                  ![c].log = @ \o (IF all_fields THEN <<query, again>> ELSE <<query>>)]
  /\ UNCHANGED <<is_loaded, Config>>

\* The trace of the artifacts left out.
TraceNlpArtifactsNever(enabled, request, nlp_artifacts) == <<>>

\* The trace of the artifacts made whenever trace is set, whatever
\* enable_trace_pii is.
TraceNlpArtifactsUngated(enabled, request, nlp_artifacts) ==
  IF request.trace
  THEN <<[NoEvent EXCEPT
            !.op = "trace", !.key = request.correlation_id,
            !.payload = [NoPayload EXCEPT !.prefix = "nlp artifacts:",
                                          !.artifacts = ToJson(nlp_artifacts)]]>>
  ELSE <<>>

\* if self.enable_trace_pii and trace: self.app_tracer.trace(...)
TraceNlpArtifacts(enabled, request, nlp_artifacts) ==
  IF enabled /\ request.trace
  THEN <<[NoEvent EXCEPT
            !.op = "trace", !.key = request.correlation_id,
            !.payload = [NoPayload EXCEPT !.prefix = "nlp artifacts:",
                                          !.artifacts = ToJson(nlp_artifacts)]]>>
  ELSE <<>>

\* ProcessText with the NLP engine's error caught and the call going on
\* without artifacts.
ProcessTextSuppressing(c) ==
  /\ call[c].pc = "process_text"
  /\ LET a == call[c].args
         asked == [NoEvent EXCEPT !.op = "process_text", !.text = a.text,
                                  !.language = a.language]
         raised == a.language \notin NlpLanguages
         produced == IF raised THEN NoArtifacts
                     ELSE [text |-> a.text, language |-> a.language, pass |-> 1]
     IN call' =
          [call EXCEPT
             ![c].pc = "for_recognizer",
             ![c].nlp_artifacts = produced,
             ![c].log = @ \o <<[asked EXCEPT
                                  !.artifacts = produced,
                                  !.outcome = IF raised THEN "raise" ELSE "ok"]>>
                          \o TraceNlpArtifacts(enable_trace_pii, a, produced)]
  /\ UNCHANGED <<is_loaded, Config>>

\* nlp_artifacts = self.nlp_engine.process_text(text, language), then the
\* trace of the artifacts.
ProcessText(c) ==
  /\ call[c].pc = "process_text"
  /\ LET a == call[c].args
         asked == [NoEvent EXCEPT !.op = "process_text", !.text = a.text,
                                  !.language = a.language]
         produced == [text |-> a.text, language |-> a.language,
                      pass |-> Cardinality(Calls(call[c].log, "process_text")) + 1]
     IN IF a.language \notin NlpLanguages
        THEN Raise(c, "UnsupportedLanguage", <<[asked EXCEPT !.outcome = "raise"]>>)
        ELSE call' =
               [call EXCEPT
                  ![c].pc = "for_recognizer",
                  ![c].nlp_artifacts = produced,
                  ![c].log = @ \o <<[asked EXCEPT !.artifacts = produced]>>
                               \o TraceNlpArtifacts(enable_trace_pii, a, produced)]
  /\ UNCHANGED <<is_loaded, Config>>

\* NextRecognizer of an engine that rejects an empty list of recognizers.
NextRecognizerRequiringOne(c) ==
  /\ call[c].pc = "for_recognizer"
  /\ IF call[c].recognizers = <<>>
     THEN Raise(c, "ValueError", <<>>)
     ELSE call' =
            [call EXCEPT ![c].pc =
               IF call[c].next > Len(call[c].recognizers) THEN "finish"
               ELSE IF is_loaded[engine_of[c]][Current(c)] THEN "analyze"
               ELSE "load"]
  /\ UNCHANGED <<is_loaded, Config>>

\* NextRecognizer with the call of analyze() inside the `if not
\* recognizer.is_loaded` block: a loaded recognizer is passed over.
NextRecognizerSkippingLoaded(c) ==
  /\ call[c].pc = "for_recognizer"
  /\ call' =
       IF call[c].next > Len(call[c].recognizers)
       THEN [call EXCEPT ![c].pc = "finish"]
       ELSE IF is_loaded[engine_of[c]][Current(c)]
       THEN [call EXCEPT ![c].next = @ + 1]
       ELSE [call EXCEPT ![c].pc = "load"]
  /\ UNCHANGED <<is_loaded, Config>>

\* NextRecognizer without the test of is_loaded: every recognizer is loaded
\* in every call.
NextRecognizerAlwaysLoading(c) ==
  /\ call[c].pc = "for_recognizer"
  /\ call' =
       [call EXCEPT ![c].pc =
          IF call[c].next > Len(call[c].recognizers) THEN "finish" ELSE "load"]
  /\ UNCHANGED <<is_loaded, Config>>

\* NextRecognizer of a loop that sets is_loaded before it calls load().
NextRecognizerFlagFirst(c) ==
  /\ call[c].pc = "for_recognizer"
  /\ call' =
       [call EXCEPT ![c].pc =
          IF call[c].next > Len(call[c].recognizers) THEN "finish"
          ELSE IF is_loaded[engine_of[c]][Current(c)] THEN "analyze"
          ELSE "load"]
  /\ is_loaded' =
       IF call[c].next > Len(call[c].recognizers) THEN is_loaded
       ELSE [is_loaded EXCEPT ![engine_of[c]][Current(c)] = TRUE]
  /\ UNCHANGED Config

\* for recognizer in recognizers: if not recognizer.is_loaded:
NextRecognizer(c) ==
  /\ call[c].pc = "for_recognizer"
  /\ call' =
       [call EXCEPT ![c].pc =
          IF call[c].next > Len(call[c].recognizers) THEN "finish"
          ELSE IF is_loaded[engine_of[c]][Current(c)] THEN "analyze"
          ELSE "load"]
  /\ UNCHANGED <<is_loaded, Config>>

\* recognizer.load()
Load(c, outcome) ==
  /\ call[c].pc = "load"
  /\ LET loaded == [NoEvent EXCEPT !.op = "load", !.recognizer = Current(c),
                                   !.outcome = outcome]
     IN IF outcome = "raise"
        THEN Raise(c, "RecognizerFailure", <<loaded>>)
        ELSE call' = [call EXCEPT ![c].pc = "set_loaded", ![c].log = @ \o <<loaded>>]
  /\ UNCHANGED <<is_loaded, Config>>

\* recognizer.is_loaded = True
SetLoaded(c) ==
  /\ call[c].pc = "set_loaded"
  /\ is_loaded' = [is_loaded EXCEPT ![engine_of[c]][Current(c)] = TRUE]
  /\ call' = [call EXCEPT ![c].pc = "analyze"]
  /\ UNCHANGED Config

\* Analyze with the recognizer's error caught and the loop going on.
AnalyzeSuppressing(c, outcome) ==
  /\ call[c].pc = "analyze"
  /\ call' = [call EXCEPT
                ![c].pc = "for_recognizer",
                ![c].next = @ + 1,
                ![c].results = @ \o outcome.list,
                ![c].log = @ \o <<[NoEvent EXCEPT
                     !.op = "analyze", !.recognizer = Current(c),
                     !.text = call[c].args.text,
                     !.entities = call[c].entities,
                     !.artifacts = call[c].nlp_artifacts,
                     !.outcome = IF outcome.raised THEN "raise" ELSE "ok",
                     !.returned = outcome.list]>>]
  /\ UNCHANGED <<is_loaded, Config>>

\* Analyze with a linguistic-analysis pass of the recognizer's own.
AnalyzePrivatePass(c, outcome) ==
  /\ call[c].pc = "analyze"
  /\ LET a == call[c].args
         asked == [NoEvent EXCEPT !.op = "process_text", !.text = a.text,
                                  !.language = a.language]
         produced == [text |-> a.text, language |-> a.language,
                      pass |-> Cardinality(Calls(call[c].log, "process_text")) + 1]
         analyzed ==
           [NoEvent EXCEPT !.op = "analyze", !.recognizer = Current(c),
                           !.text = a.text, !.entities = call[c].entities,
                           !.artifacts = produced,
                           !.outcome = IF outcome.raised THEN "raise" ELSE "ok",
                           !.returned = outcome.list]
     IN IF outcome.raised
        THEN Raise(c, "RecognizerFailure",
                   <<[asked EXCEPT !.artifacts = produced], analyzed>>)
        ELSE call' = [call EXCEPT
                        ![c].pc = "for_recognizer",
                        ![c].next = @ + 1,
                        ![c].results = @ \o outcome.list,
                        ![c].log = @ \o <<[asked EXCEPT !.artifacts = produced],
                                         analyzed>>]
  /\ UNCHANGED <<is_loaded, Config>>

\* Analyze with the recognizer's list put before the results so far.
AnalyzePrepending(c, outcome) ==
  /\ call[c].pc = "analyze"
  /\ LET analyzed ==
           [NoEvent EXCEPT !.op = "analyze", !.recognizer = Current(c),
                           !.text = call[c].args.text,
                           !.entities = call[c].entities,
                           !.artifacts = call[c].nlp_artifacts,
                           !.outcome = IF outcome.raised THEN "raise" ELSE "ok",
                           !.returned = outcome.list]
     IN IF outcome.raised
        THEN Raise(c, "RecognizerFailure", <<analyzed>>)
        ELSE call' = [call EXCEPT ![c].pc = "for_recognizer",
                                  ![c].next = @ + 1,
                                  ![c].results = outcome.list \o @,
                                  ![c].log = @ \o <<analyzed>>]
  /\ UNCHANGED <<is_loaded, Config>>

\* current_results = recognizer.analyze(text=text, entities=entities,
\* nlp_artifacts=nlp_artifacts); if current_results: results.extend(...)
Analyze(c, outcome) ==
  /\ call[c].pc = "analyze"
  /\ LET analyzed ==
           [NoEvent EXCEPT !.op = "analyze", !.recognizer = Current(c),
                           !.text = call[c].args.text,
                           !.entities = call[c].entities,
                           !.artifacts = call[c].nlp_artifacts,
                           !.outcome = IF outcome.raised THEN "raise" ELSE "ok",
                           !.returned = outcome.list]
     IN IF outcome.raised
        THEN Raise(c, "RecognizerFailure", <<analyzed>>)
        ELSE call' = [call EXCEPT ![c].pc = "for_recognizer",
                                  ![c].next = @ + 1,
                                  ![c].results = @ \o outcome.list,
                                  ![c].log = @ \o <<analyzed>>]
  /\ UNCHANGED <<is_loaded, Config>>

\* if trace: self.app_tracer.trace(correlation_id, json.dumps(...))
TraceResults(request, results) ==
  IF request.trace
  THEN <<[NoEvent EXCEPT
            !.op = "trace", !.key = request.correlation_id,
            !.payload = [NoPayload EXCEPT !.results = Dumps(results)]]>>
  ELSE <<>>

\* The results with remove_duplicates never called.
NotDeduplicated(results) == results

\* results = EntityRecognizer.remove_duplicates(results)
Deduplicated(results) == RemoveDuplicates(results)

\* Finish with a traced call returning the list it traced.
FinishTracedAsIs(c) ==
  /\ call[c].pc = "finish"
  /\ LET a == call[c].args
         deduplicate == [NoEvent EXCEPT !.op = "remove_duplicates"]
     IN call' =
          [call EXCEPT
             ![c].pc = "done",
             ![c].results =
                IF a.trace THEN call[c].results
                ELSE RemoveAnalysisExplanation(
                       RemoveLowScores(Deduplicated(call[c].results),
                                       a.score_threshold, default_score_threshold),
                       a.remove_interpretability_response),
             ![c].log = @ \o TraceResults(a, call[c].results)
                          \o (IF a.trace THEN <<>> ELSE <<deduplicate>>)]
  /\ UNCHANGED <<is_loaded, Config>>

\* Finish with the results traced after remove_duplicates.
FinishTracingLate(c) ==
  /\ call[c].pc = "finish"
  /\ LET a == call[c].args
         deduplicate == [NoEvent EXCEPT !.op = "remove_duplicates"]
         kept == Deduplicated(call[c].results)
     IN call' =
          [call EXCEPT
             ![c].pc = "done",
             ![c].results =
                RemoveAnalysisExplanation(
                  RemoveLowScores(kept, a.score_threshold, default_score_threshold),
                  a.remove_interpretability_response),
             ![c].log = @ \o <<deduplicate>> \o TraceResults(a, kept)]
  /\ UNCHANGED <<is_loaded, Config>>

\* The trace of the results, remove_duplicates, __remove_low_scores,
\* __remove_analysis_explanation and the return.
Finish(c) ==
  /\ call[c].pc = "finish"
  /\ LET a == call[c].args
         deduplicate == [NoEvent EXCEPT !.op = "remove_duplicates"]
     IN call' =
          [call EXCEPT
             ![c].pc = "done",
             ![c].results =
                RemoveAnalysisExplanation(
                  RemoveLowScores(Deduplicated(call[c].results),
                                  a.score_threshold, default_score_threshold),
                  a.remove_interpretability_response),
             ![c].log = @ \o TraceResults(a, call[c].results) \o <<deduplicate>>]
  /\ UNCHANGED <<is_loaded, Config>>

\* The caller has the list, or the error, and the call's frame is gone.
Return(c) ==
  /\ Ended(c)
  /\ call' = [call EXCEPT ![c] = NoCall]
  /\ UNCHANGED <<is_loaded, Config>>

(***************************************************************************)
(* What the registry and the recognizers may do when thread c calls them.  *)
(***************************************************************************)
RegistryChoices(c) ==
  IF call[c].pc = "get_recognizers"
  THEN RegistryOutcomes(call[c].args.language)
  ELSE {}

\* The order matters only when get_supported_entities() is called.
SetOrderChoices(c) ==
  IF ~call[c].args.entities.given \/ call[c].args.entities.val = <<>>
  THEN SetOrders
  ELSE {<<"EMAIL", "PERSON">>}

AnalyzeChoices(c) ==
  IF call[c].pc = "analyze"
  THEN AnalyzeOutcomes(Current(c), call[c].args.text)
  ELSE {}

(***************************************************************************)
(* One caller: calls follow one another on one thread.                     *)
(***************************************************************************)
Next ==
  \/ \E request \in Requests : Start(1, request)
  \/ \E outcome \in RegistryChoices(1), set_order \in SetOrderChoices(1) :
       ResolveRecognizers(1, outcome, set_order)
  \/ ProcessText(1)
  \/ NextRecognizer(1)
  \/ \E outcome \in LoadOutcomes : Load(1, outcome)
  \/ SetLoaded(1)
  \/ \E outcome \in AnalyzeChoices(1) : Analyze(1, outcome)
  \/ Finish(1)
  \/ Return(1)

Spec == Init /\ [][Next]_vars

(***************************************************************************)
(* Two threads call the one engine at the same time, once each.            *)
(***************************************************************************)
ConcurrentRequests ==
  {request \in Requests :
     /\ request.text = "a"
     /\ request.language = "en"
     /\ request.entities \in {Absent(<<>>), Given(<<"EMAIL">>)}
     /\ request.score_threshold = Absent(0)
     /\ ~request.trace
     /\ ~request.remove_interpretability_response}

\* A recognizer raises, finds nothing or finds one PERSON.
ConcurrentAnalyzeChoices(c) ==
  {outcome \in AnalyzeChoices(c) :
     \A i \in DOMAIN outcome.list :
       /\ i = 1
       /\ outcome.list[i].entity_type = "PERSON"
       /\ outcome.list[i].score = 2}

ConcurrentNext ==
  \E c \in Threads :
    \/ \E request \in ConcurrentRequests : Start(c, request)
    \/ \E outcome \in RegistryChoices(c), set_order \in SetOrderChoices(c) :
         ResolveRecognizers(c, outcome, set_order)
    \/ ProcessText(c)
    \/ NextRecognizer(c)
    \/ \E outcome \in LoadOutcomes : Load(c, outcome)
    \/ SetLoaded(c)
    \/ \E outcome \in ConcurrentAnalyzeChoices(c) : Analyze(c, outcome)
    \/ Finish(c)

SpecConcurrent == Init /\ [][ConcurrentNext]_vars

(***************************************************************************)
(* Two engines constructed alike and in the same state: thread 1 calls the *)
(* first with trace enabled, then thread 2 calls the second with the same  *)
(* arguments and trace disabled, and the registry and the recognizers do   *)
(* for thread 2 what they did for thread 1.                                *)
(***************************************************************************)
InitTwin ==
  /\ InitEngine
  /\ \E loaded \in [RecognizerNames -> BOOLEAN] :
       is_loaded = [e \in Engines |-> loaded]
  /\ engine_of = [c \in Threads |-> c]

TraceFlipped(request) == [request EXCEPT !.trace = ~@]

\* Thread 1 makes the traced call of the two.
TracedRequests == {request \in Requests : request.trace}

\* What thread 1's log says the registry did.
RegistryEcho ==
  IF call[2].pc = "get_recognizers"
  THEN {call[1].log[i].outcome : i \in Calls(call[1].log, "get_recognizers")}
  ELSE {}

\* The set orders that give thread 1's list of entities.
SetOrderEcho ==
  {order \in SetOrders :
     ~call[1].all_fields
     \/ call[1].entities = GetSupportedEntities(call[1].args.language, order)}

\* What thread 1's log says load() of thread 2's recognizer did, when
\* thread 1 called it.
LoadEcho ==
  IF call[2].pc # "load" THEN {}
  ELSE LET seen == {i \in Calls(call[1].log, "load") :
                      call[1].log[i].recognizer = Current(2)}
       IN IF seen = {} THEN LoadOutcomes
          ELSE {call[1].log[i].outcome : i \in seen}

AnalyzeEcho ==
  IF call[2].pc # "analyze" THEN {}
  ELSE LET seen == {i \in Calls(call[1].log, "analyze") :
                      call[1].log[i].recognizer = Current(2)}
       IN IF seen = {} THEN AnalyzeChoices(2)
          ELSE {[raised |-> call[1].log[i].outcome = "raise",
                 list |-> call[1].log[i].returned] : i \in seen}

TwinNext ==
  \/ \E request \in TracedRequests : Start(1, request)
  \/ \E outcome \in RegistryChoices(1), set_order \in SetOrderChoices(1) :
       ResolveRecognizers(1, outcome, set_order)
  \/ ProcessText(1)
  \/ NextRecognizer(1)
  \/ \E outcome \in LoadOutcomes : Load(1, outcome)
  \/ SetLoaded(1)
  \/ \E outcome \in AnalyzeChoices(1) : Analyze(1, outcome)
  \/ Finish(1)
  \/ Ended(1) /\ Start(2, TraceFlipped(call[1].args))
  \/ \E outcome \in RegistryEcho, set_order \in SetOrderEcho :
       ResolveRecognizers(2, outcome, set_order)
  \/ ProcessText(2)
  \/ NextRecognizer(2)
  \/ \E outcome \in LoadEcho : Load(2, outcome)
  \/ SetLoaded(2)
  \/ \E outcome \in AnalyzeEcho : Analyze(2, outcome)
  \/ Finish(2)

SpecTwin == InitTwin /\ [][TwinNext]_vars

(***************************************************************************)
(* What a call's log and result say.                                       *)
(***************************************************************************)
\* analyze() has returned its list, call[c].results.
Returned(c) == call[c].pc = "done"

\* The lists the recognizers returned, concatenated in the order of their
\* analyze() calls: the result list before deduplication.
RECURSIVE RawFrom(_, _)
RawFrom(lg, i) ==
  IF i > Len(lg) THEN <<>>
  ELSE IF lg[i].op = "analyze" /\ lg[i].outcome = "ok"
       THEN lg[i].returned \o RawFrom(lg, i + 1)
       ELSE RawFrom(lg, i + 1)

RawResults(c) == RawFrom(call[c].log, 1)

\* The positions at which a recognizer was loaded or invoked.
RecognizerCalls(lg) == Calls(lg, "load") \cup Calls(lg, "analyze")

SameTypeAndSpan(a, b) ==
  a.entity_type = b.entity_type /\ a.start = b.start /\ a.end = b.end

\* The threshold the claim C1 speaks of.
EffectiveThreshold(c) ==
  IF call[c].args.score_threshold.given
  THEN call[c].args.score_threshold.val
  ELSE default_score_threshold

(***************************************************************************)
(* C1: every finding of a returned list has a score at or above the        *)
(* effective threshold: the score_threshold argument when one is given,    *)
(* 0 included, and the engine's default_score_threshold otherwise.         *)
(***************************************************************************)
C1_ScoresReachThreshold ==
  \A c \in Threads :
    Returned(c) =>
      \A i \in DOMAIN call[c].results :
        call[c].results[i].score >= EffectiveThreshold(c)

\* A call with score_threshold = 0 on an engine whose default is 2 returns a
\* finding of score 1.
C1_Witness ==
  \E c \in Threads :
    /\ Returned(c)
    /\ call[c].args.score_threshold = Given(0)
    /\ default_score_threshold = 2
    /\ \E i \in DOMAIN call[c].results : call[c].results[i].score = 1

(***************************************************************************)
(* C2: when an entities list is given, every returned finding's entity     *)
(* type is a member of that list, whatever the recognizers return.         *)
(***************************************************************************)
C2_ReturnedTypesRequested ==
  \A c \in Threads :
    Returned(c) /\ call[c].args.entities.given =>
      \A i \in DOMAIN call[c].results :
        call[c].results[i].entity_type \in Range(call[c].args.entities.val)

(***************************************************************************)
(* C3: of the findings of the list before deduplication that have the same *)
(* entity type and the same span, the returned list holds at most one, and *)
(* it is the one with the highest score, on equal scores the one returned  *)
(* first (by the recognizer invoked earlier).                              *)
(***************************************************************************)
\* The finding of raw that wins over every other of raw[i]'s type and span.
BestLike(raw, i) ==
  LET group == {j \in DOMAIN raw : SameTypeAndSpan(raw[j], raw[i])}
  IN raw[CHOOSE j \in group : \A k \in group \ {j} : Precedes(raw, j, k)]

\* A finding as the call returns it: with its explanation, or without.
AsReturned(c, finding) ==
  IF call[c].args.remove_interpretability_response
  THEN [finding EXCEPT !.analysis_explanation = NoExplanation]
  ELSE finding

C3_DedupLaw ==
  \A c \in Threads :
    Returned(c) =>
      LET raw == RawResults(c)
          out == call[c].results
      IN \A i \in DOMAIN raw :
           LET kept == {k \in DOMAIN out : SameTypeAndSpan(out[k], raw[i])}
           IN /\ Cardinality(kept) <= 1
              /\ \A k \in kept : out[k] = AsReturned(c, BestLike(raw, i))

\* Two recognizers returned findings of the same type, span and score, and
\* the call returned the first recognizer's.
C3_Witness ==
  \E c \in Threads :
    /\ Returned(c)
    /\ ~call[c].args.remove_interpretability_response
    /\ Len(RawResults(c)) = 2
    /\ SameTypeAndSpan(RawResults(c)[1], RawResults(c)[2])
    /\ RawResults(c)[1].score = RawResults(c)[2].score
    /\ RawResults(c)[1].analysis_explanation = "r1"
    /\ RawResults(c)[2].analysis_explanation = "r2"
    /\ call[c].results = <<RawResults(c)[1]>>

(***************************************************************************)
(* C5: when a recognizer's load() or analyze() raises, the call ends with  *)
(* that error: it returns no list, loads and invokes no further            *)
(* recognizer, and records no trace of the results.                        *)
(***************************************************************************)
C5_RecognizerFailureAborts ==
  \A c \in Threads :
    \A i \in RecognizerCalls(call[c].log) :
      call[c].log[i].outcome = "raise" =>
        /\ call[c].pc = "failed"
        /\ call[c].error = "RecognizerFailure"
        /\ i = Len(call[c].log)
        /\ \A t \in Calls(call[c].log, "trace") :
             call[c].log[t].payload.prefix = "nlp artifacts:"

\* The first of two candidate recognizers raised in a traced call.
C5_Witness ==
  \E c \in Threads :
    /\ call[c].pc = "failed"
    /\ call[c].args.trace
    /\ call[c].recognizers = <<"r1", "r2">>
    /\ call[c].log[Len(call[c].log)].op = "analyze"
    /\ call[c].log[Len(call[c].log)].recognizer = "r1"
    /\ call[c].log[Len(call[c].log)].outcome = "raise"

(***************************************************************************)
(* C6: a call with an empty text is rejected with InvalidInput before the  *)
(* registry is queried, before process_text is called and before any       *)
(* recognizer is loaded or invoked.                                        *)
(***************************************************************************)
C6_EmptyTextRejected ==
  \A c \in Threads :
    call[c].pc # "idle" /\ call[c].args.text = "" =>
      /\ call[c].log = <<>>
      /\ call[c].pc \in {"get_recognizers", "failed"}
      /\ call[c].pc = "failed" => call[c].error = "InvalidInput"

(***************************************************************************)
(* C7: in a call that returns, process_text is called exactly once, before *)
(* any recognizer's analyze, and every recognizer invoked is given the     *)
(* artifacts that one call produced.                                       *)
(***************************************************************************)
C7_OneSharedNlpPass ==
  \A c \in Threads :
    Returned(c) =>
      LET lg == call[c].log
      IN /\ Cardinality(Calls(lg, "process_text")) = 1
         /\ \A p \in Calls(lg, "process_text"), i \in Calls(lg, "analyze") :
              /\ p < i
              /\ lg[i].artifacts = lg[p].artifacts

\* A call that invoked two recognizers has returned.
C7_Witness ==
  \E c \in Threads :
    /\ Returned(c)
    /\ Cardinality(Calls(call[c].log, "analyze")) = 2

(***************************************************************************)
(* C8: in a call with trace enabled, a trace event that carries the        *)
(* serialized artifacts under the call's correlation_id is recorded before *)
(* any recognizer is loaded or invoked, whether or not a finding is        *)
(* returned.                                                               *)
(***************************************************************************)
\* The call has got its artifacts: it is at the loop, or past it.
PastProcessText(c) ==
  \/ call[c].pc \in {"for_recognizer", "load", "set_loaded", "analyze",
                     "finish", "done"}
  \/ call[c].pc = "failed" /\ call[c].error = "RecognizerFailure"

\* The positions at which the call's artifacts were traced.
ArtifactTraces(c) ==
  {i \in Calls(call[c].log, "trace") :
     /\ call[c].log[i].key = call[c].args.correlation_id
     /\ call[c].log[i].payload.prefix = "nlp artifacts:"
     /\ call[c].log[i].payload.artifacts = ToJson(call[c].nlp_artifacts)}

ArtifactsTracedFirst(c) ==
  \E t \in ArtifactTraces(c) :
    \A i \in RecognizerCalls(call[c].log) : t < i

\* The claim as stated: whenever trace is enabled.
C8_TracedWheneverTrace ==
  \A c \in Threads :
    call[c].args.trace /\ PastProcessText(c) => ArtifactsTracedFirst(c)

\* The claim as amended: when trace is enabled and the engine was
\* constructed with enable_trace_pii = True.
C8_TracedWhenPiiTraceEnabled ==
  \A c \in Threads :
    call[c].args.trace /\ enable_trace_pii /\ PastProcessText(c) =>
      ArtifactsTracedFirst(c)

\* A traced call on such an engine invoked a recognizer and returned an
\* empty list.
C8_Witness ==
  \E c \in Threads :
    /\ Returned(c)
    /\ call[c].args.trace /\ enable_trace_pii
    /\ Calls(call[c].log, "analyze") # {}
    /\ call[c].results = <<>>

(***************************************************************************)
(* C9: in a call with trace enabled whose recognizers all succeed, exactly *)
(* one trace event is recorded after the recognizers have run and before   *)
(* deduplication; it is keyed by the call's correlation_id and lists       *)
(* every finding the recognizers returned, those that deduplication or the *)
(* threshold remove included.                                              *)
(***************************************************************************)
\* The positions of the trace events recorded after the artifacts' trace
\* and every recognizer call, and before remove_duplicates.
ResultTraces(c) ==
  LET lg == call[c].log
  IN {t \in Calls(lg, "trace") \ ArtifactTraces(c) :
        /\ \A i \in RecognizerCalls(lg) \cup Calls(lg, "process_text") : i < t
        /\ \A d \in Calls(lg, "remove_duplicates") : t < d}

C9_ResultsTracedBeforeDedup ==
  \A c \in Threads :
    Returned(c) /\ call[c].args.trace =>
      /\ Cardinality(Calls(call[c].log, "remove_duplicates")) = 1
      /\ Cardinality(ResultTraces(c)) = 1
      /\ Calls(call[c].log, "trace") = ArtifactTraces(c) \cup ResultTraces(c)
      /\ \A t \in ResultTraces(c) :
           /\ call[c].log[t].key = call[c].args.correlation_id
           /\ call[c].log[t].payload.results = Dumps(RawResults(c))

\* A traced call returned fewer findings than its recognizers returned.
C9_Witness ==
  \E c \in Threads :
    /\ Returned(c)
    /\ call[c].args.trace
    /\ Len(RawResults(c)) = 2
    /\ Len(call[c].results) < 2

(***************************************************************************)
(* C4: when calls that run at the same time share a recognizer that is not *)
(* loaded, its load() is executed at most once over all the calls.         *)
(***************************************************************************)
\* The executions of load() on r that ran to completion.
Loads(r) ==
  UNION {{<<c, i>> : i \in {j \in Calls(call[c].log, "load") :
                             /\ call[c].log[j].recognizer = r
                             /\ call[c].log[j].outcome = "ok"}} :
         c \in Threads}

C4_LoadedAtMostOnce ==
  \A r \in RecognizerNames : Cardinality(Loads(r)) <= 1

(***************************************************************************)
(* C10: two calls that differ only in the trace flag return the same list  *)
(* (or end with the same error), and call the registry, the NLP engine and *)
(* the recognizers in the same order with the same arguments.              *)
(***************************************************************************)
\* A log without its trace events.
Untraced(lg) == SubSeqAt(lg, {i \in DOMAIN lg : lg[i].op # "trace"}, 1)

RedactFlipped(request) ==
  [request EXCEPT !.remove_interpretability_response = ~@]

\* Thread 1 makes the call of the two that removes the explanations.
RedactedRequests ==
  {request \in Requests : request.remove_interpretability_response}

RedactionNext ==
  \/ \E request \in RedactedRequests : Start(1, request)
  \/ \E outcome \in RegistryChoices(1), set_order \in SetOrderChoices(1) :
       ResolveRecognizers(1, outcome, set_order)
  \/ ProcessText(1)
  \/ NextRecognizer(1)
  \/ \E outcome \in LoadOutcomes : Load(1, outcome)
  \/ SetLoaded(1)
  \/ \E outcome \in AnalyzeChoices(1) : Analyze(1, outcome)
  \/ Finish(1)
  \/ Ended(1) /\ Start(2, RedactFlipped(call[1].args))
  \/ \E outcome \in RegistryEcho, set_order \in SetOrderEcho :
       ResolveRecognizers(2, outcome, set_order)
  \/ ProcessText(2)
  \/ NextRecognizer(2)
  \/ \E outcome \in LoadEcho : Load(2, outcome)
  \/ SetLoaded(2)
  \/ \E outcome \in AnalyzeEcho : Analyze(2, outcome)
  \/ Finish(2)

SpecRedaction == InitTwin /\ [][RedactionNext]_vars

(***************************************************************************)
(* C11: the call with remove_interpretability_response = True returns the  *)
(* list the same call with the flag False returns, finding for finding in  *)
(* the same order with the same entity type, span and score, except that   *)
(* every returned finding's explanation is cleared; with the flag False    *)
(* the findings are returned as the recognizers made them.                 *)
(***************************************************************************)
C11_RedactionClearsOnlyExplanations ==
  Ended(1) /\ Ended(2) =>
    /\ call[1].pc = call[2].pc
    /\ call[1].error = call[2].error
    /\ Returned(1) =>
         /\ Len(call[1].results) = Len(call[2].results)
         /\ \A i \in DOMAIN call[1].results :
              /\ call[1].results[i] =
                   [call[2].results[i] EXCEPT
                      !.analysis_explanation = NoExplanation]
              /\ call[2].results[i] \in Range(RawResults(2))
              /\ call[2].results[i].analysis_explanation # NoExplanation

\* Both calls have returned a finding: the first without its explanation,
\* the second with it.
C11_Witness ==
  /\ Returned(1) /\ Returned(2)
  /\ call[1].args.remove_interpretability_response
  /\ ~call[2].args.remove_interpretability_response
  /\ call[1].results # <<>>
  /\ call[1].results[1].analysis_explanation = NoExplanation
  /\ call[2].results[1].analysis_explanation # NoExplanation

(***************************************************************************)
(* C12: when registry.get_recognizers() or nlp_engine.process_text()       *)
(* raises UnsupportedLanguage, that is the last thing the call does: the   *)
(* call ends with UnsupportedLanguage, and it has loaded no recognizer,    *)
(* invoked none and recorded no trace event.                               *)
(***************************************************************************)
\* The positions at which the registry or the NLP engine raised.
LanguageRefusals(lg) ==
  {i \in Calls(lg, "get_recognizers") \cup Calls(lg, "process_text") :
     lg[i].outcome = "raise"}

C12_UnsupportedLanguagePropagates ==
  \A c \in Threads :
    \A i \in LanguageRefusals(call[c].log) :
      /\ i = Len(call[c].log)
      /\ call[c].pc = "failed"
      /\ call[c].error = "UnsupportedLanguage"
      /\ RecognizerCalls(call[c].log) = {}
      /\ Calls(call[c].log, "trace") = {}

\* A traced call on an engine that traces PII has failed in process_text,
\* after the registry returned its list.
C12_Witness ==
  \E c \in Threads :
    /\ call[c].pc = "failed"
    /\ call[c].args.trace /\ enable_trace_pii
    /\ \E i \in LanguageRefusals(call[c].log) :
         call[c].log[i].op = "process_text"

(***************************************************************************)
(* C13: a call for which the registry returned no recognizer at all ends   *)
(* by returning an empty list, never by an error.                          *)
(***************************************************************************)
\* The registry answered the call's queries, and with an empty list.
NoCandidates(c) ==
  /\ Calls(call[c].log, "get_recognizers") # {}
  /\ \A i \in Calls(call[c].log, "get_recognizers") :
       call[c].log[i].outcome = "ok"
  /\ call[c].recognizers = <<>>

C13_NoCandidatesNoError ==
  \A c \in Threads :
    NoCandidates(c) /\ Ended(c) =>
      Returned(c) /\ call[c].results = <<>>

\* C13, amended: a call for which the registry returned no recognizer at
\* all, and whose process_text() pass succeeded, ends by returning an empty
\* list.
C13_NoCandidatesAndModelReturnsEmpty ==
  \A c \in Threads :
    /\ NoCandidates(c)
    /\ Ended(c)
    /\ \E i \in Calls(call[c].log, "process_text") :
         call[c].log[i].outcome = "ok"
    => Returned(c) /\ call[c].results = <<>>

\* A call in a language the NLP engine has a model for and the registry no
\* recognizer has returned its empty list.
C13_Witness ==
  \E c \in Threads :
    /\ NoCandidates(c)
    /\ \E i \in Calls(call[c].log, "process_text") :
         call[c].log[i].outcome = "ok"
    /\ Returned(c)
    /\ call[c].results = <<>>

(***************************************************************************)
(* C14: the call asks for all entities exactly when its entities argument  *)
(* is absent: a given list is what the registry is queried with, with      *)
(* all_fields False, and what every recognizer is passed; only without a   *)
(* list is the registry queried with all_fields True and every recognizer  *)
(* passed the union of the supported entities of the language's            *)
(* recognizers.                                                            *)
(***************************************************************************)
\* The union of the supported entities of the recognizers of a language.
SupportedUnion(language) ==
  UNION {Range(SupportedEntities(r)) :
           r \in {n \in Range(registry) : SupportedLanguage(n) = language}}

C14_AllEntitiesOnlyWhenAbsent ==
  \A c \in Threads :
    LET lg == call[c].log
        a == call[c].args
        queries == Calls(lg, "get_recognizers")
    IN queries # {} =>
         LET first == lg[CHOOSE i \in queries : \A j \in queries : i <= j]
         IN /\ first.all_fields = ~a.entities.given
            /\ a.entities.given => first.entities = a.entities.val
            /\ \A i \in Calls(lg, "analyze") :
                 IF a.entities.given
                 THEN lg[i].entities = a.entities.val
                 ELSE Range(lg[i].entities) = SupportedUnion(a.language)

(***************************************************************************)
(* One engine, called twice in sequence with the same arguments: thread 1  *)
(* makes the first call and, once it has ended, thread 2 the second.  The  *)
(* registry is unchanged and the recognizers are deterministic: they do    *)
(* for the second call what they did for the first.                        *)
(***************************************************************************)
\* What a recognizer returns the second time: what it returned the first
\* time, be it in new objects or in the very objects of the first call,
\* whose explanations that call may have removed in place.
RepeatedAnalyzeChoices ==
  LET redacted(outcome) ==
        [outcome EXCEPT !.list = RemoveAnalysisExplanation(
           @, call[1].args.remove_interpretability_response)]
  IN AnalyzeEcho \cup {redacted(outcome) : outcome \in AnalyzeEcho}

RepeatNext ==
  \/ \E request \in Requests : Start(1, request)
  \/ \E outcome \in RegistryChoices(1), set_order \in SetOrderChoices(1) :
       ResolveRecognizers(1, outcome, set_order)
  \/ ProcessText(1)
  \/ NextRecognizer(1)
  \/ \E outcome \in LoadOutcomes : Load(1, outcome)
  \/ SetLoaded(1)
  \/ \E outcome \in AnalyzeChoices(1) : Analyze(1, outcome)
  \/ Finish(1)
  \/ Ended(1) /\ Start(2, call[1].args)
  \/ \E outcome \in RegistryEcho, set_order \in SetOrderEcho :
       ResolveRecognizers(2, outcome, set_order)
  \/ ProcessText(2)
  \/ NextRecognizer(2)
  \/ \E outcome \in LoadOutcomes : Load(2, outcome)
  \/ SetLoaded(2)
  \/ \E outcome \in RepeatedAnalyzeChoices : Analyze(2, outcome)
  \/ Finish(2)

SpecRepeat == Init /\ [][RepeatNext]_vars

(***************************************************************************)
(* C15: of two calls in sequence with the same arguments, the registry     *)
(* unchanged and the recognizers deterministic, the second returns when    *)
(* the first did, and the same set of findings, although the first call    *)
(* has loaded recognizers (and may have removed explanations in place).    *)
(***************************************************************************)
C15_RepeatedCallSameFindings ==
  Returned(1) /\ Ended(2) =>
    /\ Returned(2)
    /\ Range(call[1].results) = Range(call[2].results)

\* Both calls have returned findings; the first loaded a recognizer and the
\* second loaded none.
C15_Witness ==
  /\ Returned(1) /\ Returned(2)
  /\ call[1].args = call[2].args
  /\ call[1].results # <<>>
  /\ Calls(call[1].log, "load") # {}
  /\ Calls(call[2].log, "load") = {}

(***************************************************************************)
(* get_supported_entities(), called on one engine whose registry its owner *)
(* changes between the calls.                                              *)
(***************************************************************************)
\* The language argument: a language, or none ("", which `not language`
\* takes as None).
LanguageArgs == Languages \cup {""}

\* The caller calls get_supported_entities(language): get_recognizers(),
\* the extend loop and list(set(...)), which comes in set_order.
SupportedEntitiesCall(c, language, outcome, set_order) ==
  /\ call[c].pc = "idle"
  /\ LET lang == IF language = "" THEN DefaultLanguage ELSE language
         query == [NoEvent EXCEPT !.op = "get_recognizers",
                                  !.language = lang, !.all_fields = TRUE,
                                  !.outcome = outcome]
     IN IF outcome = "raise"
        THEN Raise(c, "UnsupportedLanguage", <<query>>)
        ELSE call' =
               [call EXCEPT
                  ![c].pc = "supported",
                  ![c].args.language = language,
                  ![c].recognizers = GetRecognizers(language),
                  ![c].entities = GetSupportedEntities(language, set_order),
                  ![c].log = <<query>>]
  /\ UNCHANGED <<is_loaded, Config>>

\* return list(set(supported_entities))
ReturnSupported(c) ==
  /\ call[c].pc = "supported"
  /\ call' = [call EXCEPT ![c] = NoCall]
  /\ UNCHANGED <<is_loaded, Config>>

\* The registry's owner adds or removes recognizers while no call is going
\* on.
SetRegistry(recognizers) ==
  /\ \A c \in Threads : call[c].pc = "idle"
  /\ registry' = recognizers
  /\ UNCHANGED <<is_loaded, enable_trace_pii, default_score_threshold,
                 engine_of, call>>

IntrospectNext ==
  \/ \E c \in Threads, language \in LanguageArgs, set_order \in SetOrders :
       \E outcome \in RegistryOutcomes(IF language = "" THEN DefaultLanguage
                                        ELSE language) :
         SupportedEntitiesCall(c, language, outcome, set_order)
  \/ \E c \in Threads : ReturnSupported(c)
  \/ \E c \in Threads : Return(c)
  \/ \E recognizers \in Registries : SetRegistry(recognizers)

SpecIntrospect == Init /\ [][IntrospectNext]_vars

(***************************************************************************)
(* C16: the list get_supported_entities(language) returns has no element   *)
(* twice, and its elements are those of the supported entities of the      *)
(* recognizers the registry lists, at the time of the call, for the        *)
(* language (the engine's default language when none is given).            *)
(***************************************************************************)
C16_SupportedEntitiesAreTheUnion ==
  \A c \in Threads :
    call[c].pc = "supported" =>
      LET listed == call[c].entities
          lang == IF call[c].args.language = "" THEN DefaultLanguage
                  ELSE call[c].args.language
      IN /\ \A i, j \in DOMAIN listed : listed[i] = listed[j] => i = j
         /\ call[c].recognizers = RegistryGetRecognizers(lang, <<>>, TRUE)
         /\ Range(listed) = SupportedUnion(lang)

\* With no language given, and r2 removed from the registry since the
\* engine was constructed, the call has returned r1's one entity.
C16_Witness ==
  \E c \in Threads :
    /\ call[c].pc = "supported"
    /\ call[c].args.language = ""
    /\ registry = <<"r1">>
    /\ call[c].entities = <<"PERSON">>

(***************************************************************************)
(* C17: on an engine constructed with enable_trace_pii = False no call,    *)
(* whatever its trace flag, records a trace event that carries the         *)
(* serialized NLP artifacts.                                               *)
(***************************************************************************)
C17_NoArtifactsTracedWithoutPiiTrace ==
  ~enable_trace_pii =>
    \A c \in Threads :
      \A i \in Calls(call[c].log, "trace") :
        /\ call[c].log[i].payload.prefix # "nlp artifacts:"
        /\ call[c].log[i].payload.artifacts = ToJson(NoArtifacts)

\* A call with trace set, on an engine that does not trace PII, has
\* returned; its log holds the trace of the results and no other.
C17_Witness ==
  \E c \in Threads :
    /\ ~enable_trace_pii
    /\ call[c].args.trace
    /\ call[c].args.text = "a"
    /\ Returned(c)
    /\ Cardinality(Calls(call[c].log, "trace")) = 1

(***************************************************************************)
(* C18: with the calls one after the other, a recognizer whose load() has  *)
(* returned is flagged as loaded from then on, load() is called only on a  *)
(* recognizer that is not flagged, and only on a recognizer of the call's  *)
(* list of recognizers: no later call loads it again.                      *)
(***************************************************************************)
\* Thread c's step is a call of load() on recognizer r.
LoadStep(c, r) ==
  /\ Len(call'[c].log) = Len(call[c].log) + 1
  /\ call'[c].log[Len(call'[c].log)].op = "load"
  /\ call'[c].log[Len(call'[c].log)].recognizer = r

\* load() of r has returned in thread c's call.
LoadReturned(c, r) ==
  \E i \in Calls(call[c].log, "load") :
    call[c].log[i].recognizer = r /\ call[c].log[i].outcome = "ok"

C18_NeverLoadedAgain ==
  /\ [](\A c \in Threads, r \in RecognizerNames :
          LoadReturned(c, r) =>
            \/ is_loaded[engine_of[c]][r]
            \/ call[c].pc = "set_loaded" /\ Current(c) = r)
  /\ [][\A c \in Threads, r \in RecognizerNames :
          /\ is_loaded[engine_of[c]][r] => is_loaded'[engine_of[c]][r]
          /\ LoadStep(c, r) =>
               /\ ~is_loaded[engine_of[c]][r]
               /\ r \in Range(call[c].recognizers)]_vars

\* A call is about to invoke a recognizer that an earlier call loaded: it
\* has not loaded it itself.
C18_Witness ==
  \E c \in Threads :
    /\ call[c].pc = "analyze"
    /\ is_loaded[engine_of[c]][Current(c)]
    /\ ~LoadReturned(c, Current(c))

(***************************************************************************)
(* C19: the recognizers are invoked in the order of the list the registry  *)
(* returned, and the lists they return are concatenated in that order; the *)
(* returned list is the subsequence of the deduplicated list made of the   *)
(* findings whose score is at or above the effective threshold, in the     *)
(* same relative order.                                                    *)
(***************************************************************************)
C19_RegistryOrderKept ==
  \A c \in Threads :
    LET lg == call[c].log
        a == call[c].args
        invoked == Calls(lg, "analyze")
        deduplicated == RemoveDuplicates(RawResults(c))
        kept == SubSeqAt(deduplicated,
                         {i \in DOMAIN deduplicated :
                            deduplicated[i].score >= EffectiveThreshold(c)}, 1)
    IN /\ invoked # {} =>
            call[c].recognizers =
              RegistryGetRecognizers(a.language, a.entities.val,
                                     call[c].all_fields)
       /\ \A i \in invoked :
            lg[i].recognizer =
              call[c].recognizers[Cardinality({j \in invoked : j <= i})]
       /\ call[c].pc = "finish" => call[c].results = RawResults(c)
       /\ Returned(c) =>
            call[c].results = [i \in DOMAIN kept |-> AsReturned(c, kept[i])]

\* A call has returned two findings: r1's and then r2's.
C19_Witness ==
  \E c \in Threads :
    /\ Returned(c)
    /\ Len(call[c].results) = 2
    /\ call[c].results[1].analysis_explanation = "r1"
    /\ call[c].results[2].analysis_explanation = "r2"
    /\ call[c].recognizers = <<"r1", "r2">>

(***************************************************************************)
(* C20: with calls at the same time, a recognizer's analyze() is invoked   *)
(* only after a load() of that recognizer has returned: is_loaded is set   *)
(* only after load() has returned.                                         *)
(***************************************************************************)
C20_AnalyzedOnlyOnceLoaded ==
  \A r \in RecognizerNames :
    /\ is_loaded[1][r] => Loads(r) # {}
    /\ \A c \in Threads :
         \/ call[c].pc = "analyze" /\ Current(c) = r
         \/ \E i \in Calls(call[c].log, "analyze") :
              call[c].log[i].recognizer = r
         => Loads(r) # {}

\* One thread is about to invoke a recognizer it has not loaded itself:
\* the other thread has.
C20_Witness ==
  \E c \in Threads :
    /\ call[c].pc = "analyze"
    /\ ~LoadReturned(c, Current(c))
    /\ \E d \in Threads \ {c} : LoadReturned(d, Current(c))

====
